---- MODULE Spec2Model ----
(***************************************************************************)
(* A model of differ.py, the dbt manifest differ: one run of the script,   *)
(* top to bottom.  The run locates the production and the branch           *)
(* manifest, loads both, classifies the branch nodes under the eight state *)
(* selectors, and shows for every selected node the symmetric JSON diff of *)
(* its two records and a flat table of that diff.                          *)
(***************************************************************************)
EXTENDS Integers, Sequences, FiniteSets, TLC

(***************************************************************************)
(* Bounds of the model.                                                    *)
(***************************************************************************)
\* integer scalars a node field holds: 1..MaxInt
MaxInt == 2

\* node ids of the two manifests, in manifest order
NodeOrder == <<"model.a", "seed.b">>
NodeIds == {NodeOrder[i] : i \in 1..Len(NodeOrder)}

\* top-level fields of a node record, and the fields of a nested object
Keys == {"config", "created_at"}
InnerKeys == {"x", "y"}

(***************************************************************************)
(* JSON values.  A value is null, an integer, an object (a function from   *)
(* some keys to values) or an array (a sequence of values).                *)
(***************************************************************************)
Null == [t |-> "null"]
JInt(i) == [t |-> "int", v |-> i]
Dict(f) == [t |-> "dict", d |-> f]
List(s) == [t |-> "list", l |-> s]

PartialFns(K, V) == UNION {[S -> V] : S \in SUBSET K}

Scalars == {Null} \cup {JInt(i) : i \in 1..MaxInt}
Dicts == {Dict(f) : f \in PartialFns(InnerKeys, Scalars \ {Null})}
Values == Scalars \cup Dicts

\* the dictionaries to_dict() gives for a node
Records == {r \in PartialFns(Keys, Values) :
              "created_at" \in DOMAIN r => r["created_at"] \in Scalars}

\* the records the nodes of the whole-run specification are drawn from:
\* a production node holds the first, a branch node either
ProductionRecords == {[k \in {"config"} |-> Dict([i \in {"x", "y"} |-> JInt(1)])]}
RunRecords == ProductionRecords
                \cup {[k \in {"config"} |-> Dict([i \in {"x"} |-> JInt(1)])]}

(***************************************************************************)
(* differ.py:33-42                                                         *)
(***************************************************************************)
state_options == <<"modified", "new", "modified.body", "modified.configs",
                   "modified.persisted_descriptions", "modified.relation",
                   "modified.macros", "modified.contract">>
StateOptions == {state_options[i] : i \in 1..Len(state_options)}

\* the options of the multiselect of differ.py:45, and its default
IgnoreOptions == {"created_at", "root_path", "build_path", "compiled_path",
                  "deferred", "schema", "checksum", "compiled_code",
                  "database", "relation_name"}
IgnoreDefault == {"created_at", "checksum", "database", "schema",
                  "relation_name", "compiled_path", "root_path", "build_path"}

\* the sets of selectors the state comparator may find one node under
ReasonChoices == {{},
                  {"new", "modified"},
                  {"modified", "modified.body", "modified.contract"},
                  {"modified.macros"}}

VARIABLES
  pc,                      \* position of the run in the script
  failure,                 \* the exception that ended the run, or "none"
  dbt_project_path,        \* TRUE iff DATACOVES__DBT_HOME is set
  exists,                  \* which of the two manifest files exist
  document,                \* nodes of the two manifest files on disk
  search_result,           \* what state_comparator.search gives per selector
  state_method,
  properties_to_ignore,
  skipped_large_seeds,
  elided,                  \* what remove_large_seeds returned, per load
  loaded,                  \* the manifests load_manifest has returned
  production_manifest,
  branch_manifest,
  not_found_files,         \* [bound |-> FALSE] while the name is undefined
  warnings,                \* the st.warning calls made so far
  state_inclusion_counts,
  state_inclusion_reasons_by_node,
  option_idx,              \* position of the loop of differ.py:89
  selected_nodes,
  node_idx,                \* position of the loop of differ.py:106
  diffs,
  flattened_diff,
  displayed                \* what has been shown per selected node

vars == <<pc, failure, dbt_project_path, exists, document, search_result,
          state_method, properties_to_ignore, skipped_large_seeds, elided,
          loaded, production_manifest, branch_manifest, not_found_files,
          warnings, state_inclusion_counts, state_inclusion_reasons_by_node,
          option_idx, selected_nodes, node_idx, diffs, flattened_diff,
          displayed>>

Empty == [k \in {} |-> Null]

\* a Python list of the elements of S, in manifest order
RECURSIVE ListOf(_, _)
ListOf(S, i) ==
  IF i > Len(NodeOrder) THEN <<>>
  ELSE (IF NodeOrder[i] \in S THEN <<NodeOrder[i]>> ELSE <<>>) \o ListOf(S, i + 1)

Warn(msg, arg) == warnings' = warnings \cup {[msg |-> msg, arg |-> arg]}

(***************************************************************************)
(* jsondiff.diff(a, b, syntax='symmetric', marshal=True), on null,         *)
(* integers and objects.  Equal values give {}; two objects with a common  *)
(* key give the changed members, the added ones under "$insert" and the    *)
(* removed ones under "$delete"; anything else gives the pair [a, b].      *)
(***************************************************************************)
RECURSIVE JsonDiff(_, _)
JsonDiff(a, b) ==
  IF a = b THEN Dict(Empty)
  ELSE IF a.t = "dict" /\ b.t = "dict" THEN
    LET removed == DOMAIN a.d \ DOMAIN b.d
        added == DOMAIN b.d \ DOMAIN a.d
        matched == DOMAIN a.d \cap DOMAIN b.d
        changed == {k \in matched : a.d[k] # b.d[k]}
        marks == (IF added # {} THEN {"$insert"} ELSE {})
                   \cup (IF removed # {} THEN {"$delete"} ELSE {})
    IN IF matched = {} THEN List(<<a, b>>)
       ELSE Dict([k \in changed \cup marks |->
                    IF k = "$insert" THEN Dict([j \in added |-> b.d[j]])
                    ELSE IF k = "$delete" THEN Dict([j \in removed |-> a.d[j]])
                    ELSE JsonDiff(a.d[k], b.d[k])])
  ELSE List(<<a, b>>)

\* dict.get(k, None)
Get(d, k) == IF k \in DOMAIN d THEN d[k] ELSE Null

\* DiffKeys without the test of the ignored properties
DiffKeysNothingIgnored(left_dict, right_dict, ignore) ==
  {k \in DOMAIN left_dict \cup DOMAIN right_dict :
     \/ k \notin DOMAIN right_dict
     \/ k \notin DOMAIN left_dict
     \/ left_dict[k] # right_dict[k]}

\* DiffKeys over the keys of the left record instead of the keys of both
DiffKeysOfLeft(left_dict, right_dict, ignore) ==
  {k \in DOMAIN left_dict :
     /\ k \notin ignore
     /\ \/ k \notin DOMAIN right_dict
        \/ left_dict[k] # right_dict[k]}

\* the keys the comprehension of differ.py:116-129 keeps
DiffKeys(left_dict, right_dict, ignore) ==
  {k \in DOMAIN left_dict \cup DOMAIN right_dict :
     /\ k \notin ignore
     /\ \/ k \notin DOMAIN right_dict
        \/ k \notin DOMAIN left_dict
        \/ left_dict[k] # right_dict[k]}

\* differ.py:115-129
ComputeDiffs(left_dict, right_dict, ignore) ==
  [k \in DiffKeys(left_dict, right_dict, ignore) |->
     JsonDiff(Get(left_dict, k), Get(right_dict, k))]

(***************************************************************************)
(* functions.flatten.flatten_keys: one row per leaf of the diff, keyed by  *)
(* the chain of keys that leads to it.  An object is walked member by      *)
(* member; a scalar and the pair [a, b] of a replaced value are leaves.    *)
(***************************************************************************)
RECURSIVE FlattenValue(_, _)
FlattenValue(v, path) ==
  IF v.t = "dict"
    THEN UNION {FlattenValue(v.d[k], Append(path, k)) : k \in DOMAIN v.d}
    ELSE {[path |-> path, value |-> v]}

flatten_keys(ds) == UNION {FlattenValue(ds[k], <<k>>) : k \in DOMAIN ds}

Paths(rows) == {r.path : r \in rows}

(***************************************************************************)
(* state_comparator.search(included_nodes, state_option): the nodes of     *)
(* included_nodes the comparator finds under the selector, as a list.      *)
(***************************************************************************)
Search(included_nodes, state_option) ==
  ListOf(search_result[state_option] \cap included_nodes, 1)

\* AddReason that leaves the entry of a node that has one as it is
AddReasonKeepFirst(index, node, state_option) ==
  IF node \in DOMAIN index
    THEN index
    ELSE [n \in DOMAIN index \cup {node} |->
            IF n = node THEN <<state_option>> ELSE index[n]]

\* differ.py:92-95
AddReason(index, node, state_option) ==
  IF node \in DOMAIN index
    THEN [index EXCEPT ![node] = Append(@, state_option)]
    ELSE [n \in DOMAIN index \cup {node} |->
            IF n = node THEN <<state_option>> ELSE index[n]]

\* differ.py:91-95
RECURSIVE AddReasons(_, _, _)
AddReasons(index, results, state_option) ==
  IF results = <<>> THEN index
  ELSE AddReasons(AddReason(index, Head(results), state_option),
                  Tail(results), state_option)

\* SetCount that records no count for a selector without results
SetCountSkipEmpty(counts, state_option, results) ==
  IF results = <<>> THEN counts
  ELSE [o \in DOMAIN counts \cup {state_option} |->
          IF o = state_option THEN Len(results) ELSE counts[o]]

\* differ.py:96
SetCount(counts, state_option, results) ==
  [o \in DOMAIN counts \cup {state_option} |->
     IF o = state_option THEN Len(results) ELSE counts[o]]

(***************************************************************************)
(* The initial state: the widgets have been read and no manifest has been  *)
(* looked for.  The files, their nodes and what the state comparator will  *)
(* find are the inputs of the run.                                         *)
(***************************************************************************)
Sources == {"production", "branch"}

\* the node ids remove_large_seeds may elide: the seeds
SeedIds == {"seed.b"}

IgnoreChoices == {IgnoreDefault, IgnoreDefault \ {"created_at"}}

Unbound == [bound |-> FALSE, files |-> <<>>]

SearchResultOf(chosen) ==
  [o \in StateOptions |-> {n \in DOMAIN chosen : o \in chosen[n]}]

Init ==
  /\ pc = "locate"
  /\ failure = "none"
  /\ dbt_project_path \in BOOLEAN
  /\ exists \in [Sources -> BOOLEAN]
  /\ dbt_project_path = FALSE => exists = [s \in Sources |-> FALSE]
  /\ \E p \in PartialFns(NodeIds, ProductionRecords),
        b \in PartialFns(NodeIds, RunRecords) :
       document = [production |-> IF exists["production"] THEN p ELSE Empty,
                   branch |-> IF exists["branch"] THEN b ELSE Empty]
  /\ \E chosen \in [DOMAIN document["branch"] -> ReasonChoices] :
       search_result = SearchResultOf(chosen)
  /\ state_method \in StateOptions
  /\ properties_to_ignore \in IgnoreChoices
  /\ skipped_large_seeds = {}
  /\ elided = [s \in Sources |-> {}]
  /\ loaded = {}
  /\ production_manifest = Empty
  /\ branch_manifest = Empty
  /\ not_found_files = Unbound
  /\ warnings = {}
  /\ state_inclusion_counts = Empty
  /\ state_inclusion_reasons_by_node = Empty
  /\ option_idx = 1
  /\ selected_nodes = <<>>
  /\ node_idx = 1
  /\ diffs = Empty
  /\ flattened_diff = {}
  /\ displayed = <<>>

inputs == <<dbt_project_path, exists, document, search_result, state_method,
            properties_to_ignore>>
loading == <<skipped_large_seeds, elided, loaded, production_manifest,
             branch_manifest>>
classification == <<state_inclusion_counts, state_inclusion_reasons_by_node,
                    option_idx>>
showing == <<selected_nodes, node_idx, diffs, flattened_diff, displayed>>

(***************************************************************************)
(* differ.py:56-76                                                         *)
(***************************************************************************)
\* differ.py:58-64: both files are there
LocateFound ==
  /\ pc = "locate"
  /\ dbt_project_path
  /\ exists["production"] /\ exists["branch"]
  /\ not_found_files' = [bound |-> TRUE, files |-> <<>>]
  /\ pc' = "load_production"
  /\ UNCHANGED <<failure, inputs, loading, warnings, classification, showing>>

\* differ.py:58-74: a file is missing
LocateMissing ==
  /\ pc = "locate"
  /\ dbt_project_path
  /\ ~(exists["production"] /\ exists["branch"])
  /\ LET missing == (IF ~exists["production"] THEN <<"Production manifest file">> ELSE <<>>)
                      \o (IF ~exists["branch"] THEN <<"Branch manifest file">> ELSE <<>>)
     IN /\ not_found_files' = [bound |-> TRUE, files |-> missing]
        /\ Warn("Manifest files not found", {missing[i] : i \in 1..Len(missing)})
  /\ pc' = "compare"
  /\ UNCHANGED <<failure, inputs, loading, classification, showing>>

\* differ.py:75-76: the environment variable is not set
LocateUnset ==
  /\ pc = "locate"
  /\ ~dbt_project_path
  /\ Warn("DATACOVES__DBT_HOME environment variable not set.", {})
  /\ pc' = "compare"
  /\ UNCHANGED <<failure, inputs, loading, not_found_files, classification, showing>>

\* load_manifest that assigns the skipped set instead of updating it
load_manifest_assign(source, large_seeds) ==
  /\ skipped_large_seeds' = large_seeds
  /\ elided' = [elided EXCEPT ![source] = large_seeds]
  /\ loaded' = loaded \cup {source}

\* differ.py:48-53: what load_manifest does to the module's state
load_manifest(source, large_seeds) ==
  /\ skipped_large_seeds' = skipped_large_seeds \cup large_seeds
  /\ elided' = [elided EXCEPT ![source] = large_seeds]
  /\ loaded' = loaded \cup {source}

\* differ.py:65
LoadProduction ==
  /\ pc = "load_production"
  /\ \E large_seeds \in SUBSET (DOMAIN document["production"] \cap SeedIds) :
       load_manifest("production", large_seeds)
  /\ production_manifest' = document["production"]
  /\ pc' = "load_branch"
  /\ UNCHANGED <<failure, inputs, branch_manifest, not_found_files, warnings,
                 classification, showing>>

\* differ.py:66
LoadBranch ==
  /\ pc = "load_branch"
  /\ \E large_seeds \in SUBSET (DOMAIN document["branch"] \cap SeedIds) :
       load_manifest("branch", large_seeds)
  /\ branch_manifest' = document["branch"]
  /\ pc' = "compare"
  /\ UNCHANGED <<failure, inputs, production_manifest, not_found_files, warnings,
                 classification, showing>>

(***************************************************************************)
(* differ.py:78-87 and 164-165                                             *)
(***************************************************************************)
\* differ.py:78: the name not_found_files was never assigned
CompareUnbound ==
  /\ pc = "compare"
  /\ ~not_found_files.bound
  /\ failure' = "NameError"
  /\ pc' = "crashed"
  /\ UNCHANGED <<inputs, loading, not_found_files, warnings, classification, showing>>

\* differ.py:78, 164-165
CompareNeedsManifests ==
  /\ pc = "compare"
  /\ not_found_files.bound
  /\ not_found_files.files # <<>>
  /\ Warn("Production and branch manifests needed to perform comparison", {})
  /\ pc' = "done"
  /\ UNCHANGED <<failure, inputs, loading, not_found_files, classification, showing>>

included_nodes == DOMAIN branch_manifest

\* differ.py:78-88
BeginCompare ==
  /\ pc = "compare"
  /\ not_found_files.bound
  /\ not_found_files.files = <<>>
  /\ IF Cardinality(skipped_large_seeds) > 0
       THEN Warn("Some large seeds couldn't be compared from the manifest alone",
                 skipped_large_seeds)
       ELSE UNCHANGED warnings
  /\ state_inclusion_counts' = Empty
  /\ state_inclusion_reasons_by_node' = Empty
  /\ option_idx' = 1
  /\ pc' = "classify"
  /\ UNCHANGED <<failure, inputs, loading, not_found_files, showing>>

\* differ.py:89-96: one turn of the loop over state_options
ClassifyOption ==
  /\ pc = "classify"
  /\ option_idx <= Len(state_options)
  /\ LET state_option == state_options[option_idx]
         results == Search(included_nodes, state_option)
     IN /\ state_inclusion_reasons_by_node' =
             AddReasons(state_inclusion_reasons_by_node, results, state_option)
        /\ state_inclusion_counts' =
             SetCount(state_inclusion_counts, state_option, results)
  /\ option_idx' = option_idx + 1
  /\ pc' = IF option_idx = Len(state_options) THEN "select" ELSE "classify"
  /\ UNCHANGED <<failure, inputs, loading, not_found_files, warnings, showing>>

\* SelectNodes that shows every included node, whatever the method
SelectNodesAll ==
  /\ pc = "select"
  /\ selected_nodes' = ListOf(included_nodes, 1)
  /\ node_idx' = 1
  /\ pc' = "loop"
  /\ UNCHANGED <<failure, inputs, loading, not_found_files, warnings,
                 classification, diffs, flattened_diff, displayed>>

\* differ.py:98-105
SelectNodes ==
  /\ pc = "select"
  /\ selected_nodes' = Search(included_nodes, state_method)
  /\ node_idx' = 1
  /\ pc' = "loop"
  /\ UNCHANGED <<failure, inputs, loading, not_found_files, warnings,
                 classification, diffs, flattened_diff, displayed>>

(***************************************************************************)
(* differ.py:106-162: the loop over the selected nodes                     *)
(***************************************************************************)
Shown(unique_id, kind, table) == [id |-> unique_id, kind |-> kind, table |-> table]

\* differ.py:112, 154, 157: which branch the node takes
KindOf(left_present, right_present) ==
  IF left_present /\ right_present THEN "diff"
  ELSE IF ~left_present THEN "deleted"
  ELSE "new"

\* differ.py:106-143 and 154-162
ShowNode ==
  /\ pc = "loop"
  /\ node_idx <= Len(selected_nodes)
  /\ LET unique_id == selected_nodes[node_idx]
         kind == KindOf(unique_id \in DOMAIN branch_manifest,
                        unique_id \in DOMAIN production_manifest)
         miss == kind \in {"diff", "new"}
                   /\ unique_id \notin DOMAIN state_inclusion_reasons_by_node
     IN /\ diffs' = IF kind = "diff"
                      THEN ComputeDiffs(branch_manifest[unique_id],
                                        production_manifest[unique_id],
                                        properties_to_ignore)
                      ELSE diffs
        /\ failure' = IF miss THEN "KeyError" ELSE failure
        /\ pc' = IF miss THEN "crashed" ELSE IF kind = "diff" THEN "flatten" ELSE "loop"
        /\ displayed' = IF miss \/ kind = "diff" THEN displayed
                        ELSE Append(displayed, Shown(unique_id, kind, "none"))
        /\ IF kind = "deleted"
             THEN Warn("Missing from branch manifest (deleted node)", {unique_id})
             ELSE IF kind = "new"
               THEN Warn("Missing from production manifest (new node)", {unique_id})
               ELSE UNCHANGED warnings
        /\ node_idx' = IF miss \/ kind = "diff" THEN node_idx ELSE node_idx + 1
  /\ UNCHANGED <<inputs, loading, not_found_files, classification, selected_nodes,
                 flattened_diff>>

\* FlattenTable without the try of differ.py:146: the exception ends the run
FlattenTableUncaught ==
  /\ pc = "flatten"
  /\ flattened_diff' = flatten_keys(diffs)
  /\ \E raised \in BOOLEAN :
       /\ displayed' = IF raised THEN displayed
                       ELSE Append(displayed,
                                   Shown(selected_nodes[node_idx], "diff", "table"))
       /\ node_idx' = IF raised THEN node_idx ELSE node_idx + 1
       /\ pc' = IF raised THEN "crashed" ELSE "loop"
       /\ failure' = IF raised THEN "Exception" ELSE failure
  /\ UNCHANGED <<inputs, loading, not_found_files, warnings, classification,
                 selected_nodes, diffs>>

\* differ.py:145-151 and 162
FlattenTable ==
  /\ pc = "flatten"
  /\ flattened_diff' = flatten_keys(diffs)
  /\ \E raised \in BOOLEAN :
       displayed' = Append(displayed,
                           Shown(selected_nodes[node_idx], "diff",
                                 IF raised THEN "error" ELSE "table"))
  /\ node_idx' = node_idx + 1
  /\ pc' = "loop"
  /\ UNCHANGED <<failure, inputs, loading, not_found_files, warnings, classification,
                 selected_nodes, diffs>>

\* the loop of differ.py:106 is over: the script ends
Finish ==
  /\ pc = "loop"
  /\ node_idx > Len(selected_nodes)
  /\ pc' = "done"
  /\ UNCHANGED <<failure, inputs, loading, not_found_files, warnings, classification,
                 showing>>

Next ==
  \/ LocateFound
  \/ LocateMissing
  \/ LocateUnset
  \/ LoadProduction
  \/ LoadBranch
  \/ CompareUnbound
  \/ CompareNeedsManifests
  \/ BeginCompare
  \/ ClassifyOption
  \/ SelectNodes
  \/ ShowNode
  \/ FlattenTable
  \/ Finish

Spec == Init /\ [][Next]_vars

(***************************************************************************)
(* The node diff on its own: the run has reached the loop of differ.py:106 *)
(* with one selected node, present in both manifests, whose two records    *)
(* range over all of Records.                                              *)
(***************************************************************************)
DiffNode == "model.a"

DiffIgnoreChoices == IgnoreChoices \cup {{}, {"config"}}

DiffInit ==
  /\ pc = "loop"
  /\ failure = "none"
  /\ dbt_project_path = TRUE
  /\ exists = [s \in Sources |-> TRUE]
  /\ \E left_dict \in Records, right_dict \in Records :
       document = [production |-> [n \in {DiffNode} |-> right_dict],
                   branch |-> [n \in {DiffNode} |-> left_dict]]
  /\ search_result = SearchResultOf([n \in {DiffNode} |-> {"modified"}])
  /\ state_method = "modified"
  /\ properties_to_ignore \in DiffIgnoreChoices
  /\ skipped_large_seeds = {}
  /\ elided = [s \in Sources |-> {}]
  /\ loaded = Sources
  /\ production_manifest = document["production"]
  /\ branch_manifest = document["branch"]
  /\ not_found_files = [bound |-> TRUE, files |-> <<>>]
  /\ warnings = {}
  /\ state_inclusion_counts =
       [o \in StateOptions |-> IF o = "modified" THEN 1 ELSE 0]
  /\ state_inclusion_reasons_by_node = [n \in {DiffNode} |-> <<"modified">>]
  /\ option_idx = Len(state_options) + 1
  /\ selected_nodes = <<DiffNode>>
  /\ node_idx = 1
  /\ diffs = Empty
  /\ flattened_diff = {}
  /\ displayed = <<>>

DiffNext ==
  \/ ShowNode
  \/ FlattenTable
  \/ Finish

DiffSpec == DiffInit /\ [][DiffNext]_vars

(***************************************************************************)
(* What the claims speak of.                                               *)
(***************************************************************************)
\* the run loaded both manifests and went on to compare them
Compared == loaded = Sources /\ pc \in {"classify", "select", "loop", "flatten", "done", "crashed"}

\* the loop of differ.py:89 has run over all of state_options
Classified == Compared /\ option_idx > Len(state_options)

\* the node whose diff the variable diffs holds
DiffedId == selected_nodes[IF pc = "flatten" THEN node_idx ELSE node_idx - 1]
LeftDict == branch_manifest[DiffedId]
RightDict == production_manifest[DiffedId]

\* k is missing from one of the two records, or its two values differ
Differs(l, r, k) ==
  IF k \in DOMAIN l /\ k \in DOMAIN r THEN l[k] # r[k]
  ELSE k \in DOMAIN l \/ k \in DOMAIN r

RECURSIVE SumOver(_, _)
SumOver(f, S) ==
  IF S = {} THEN 0
  ELSE LET x == CHOOSE y \in S : TRUE IN f[x] + SumOver(f, S \ {x})

\* the selectors that match node n, in the order of state_options from i on
RECURSIVE MatchedFrom(_, _)
MatchedFrom(n, i) ==
  IF i > Len(state_options) THEN <<>>
  ELSE (IF n \in search_result[state_options[i]] THEN <<state_options[i]>> ELSE <<>>)
         \o MatchedFrom(n, i + 1)

DisplayedIds == [i \in 1..Len(displayed) |-> displayed[i].id]

SeedWarning ==
  [msg |-> "Some large seeds couldn't be compared from the manifest alone",
   arg |-> skipped_large_seeds]

(***************************************************************************)
(* C1: the keys of the node diff are exactly the keys of either record     *)
(* that are not ignored and that are missing from one record or hold       *)
(* different values in the two; so records that differ only in ignored     *)
(* keys give the empty mapping, and taking a differing key out of the      *)
(* ignored set gives a non-empty one.                                      *)
(***************************************************************************)
C1_DiffKeysExact ==
  pc = "flatten" =>
    LET all_keys == DOMAIN LeftDict \cup DOMAIN RightDict
        differing == {k \in all_keys : Differs(LeftDict, RightDict, k)}
    IN /\ DOMAIN diffs = differing \ properties_to_ignore
       /\ differing \subseteq properties_to_ignore => diffs = Empty
       /\ \A k \in differing \cap properties_to_ignore :
            ComputeDiffs(LeftDict, RightDict, properties_to_ignore \ {k}) # Empty

C1_Witness ==
  /\ pc = "flatten"
  /\ LeftDict # RightDict
  /\ diffs = Empty
  /\ \E k \in properties_to_ignore : Differs(LeftDict, RightDict, k)

(***************************************************************************)
(* C3, as claimed: the flat table of the diff of (A, B) and the one of     *)
(* (B, A) have the same set of row paths.                                  *)
(***************************************************************************)
C3_SamePaths ==
  (pc = "loop" /\ node_idx > 1) =>
    Paths(flattened_diff) =
      Paths(flatten_keys(ComputeDiffs(RightDict, LeftDict, properties_to_ignore)))

(***************************************************************************)
(* C3, amended: the diff of (A, B) and the diff of (B, A) have the same    *)
(* keys, that is the same set of changed top-level fields.                 *)
(***************************************************************************)
C3_SameFields ==
  pc = "flatten" =>
    DOMAIN diffs = DOMAIN ComputeDiffs(RightDict, LeftDict, properties_to_ignore)

C3_Witness ==
  /\ pc = "flatten"
  /\ \E k \in DOMAIN diffs : k \notin DOMAIN LeftDict
  /\ \E k \in DOMAIN diffs : k \in DOMAIN LeftDict /\ k \in DOMAIN RightDict
  /\ Paths(flatten_keys(diffs)) #
       Paths(flatten_keys(ComputeDiffs(RightDict, LeftDict, properties_to_ignore)))

(***************************************************************************)
(* C10: every key of the node diff maps to a diff that records at least    *)
(* one insertion, deletion or replacement: none maps to the empty diff.    *)
(***************************************************************************)
C10_NoEmptyEntry ==
  pc = "flatten" => \A k \in DOMAIN diffs : diffs[k] # Dict(Empty)

(***************************************************************************)
(* C2: once all selectors have been evaluated, the count of every selector *)
(* is the number of nodes it matched, all eight selectors have a count     *)
(* (zero included), and the reasons stored over all nodes are as many as   *)
(* the counts add up to.                                                   *)
(***************************************************************************)
C2_CountsMatch ==
  Classified =>
    /\ DOMAIN state_inclusion_counts = StateOptions
    /\ \A o \in StateOptions :
         state_inclusion_counts[o] = Cardinality(search_result[o] \cap included_nodes)
    /\ SumOver([n \in DOMAIN state_inclusion_reasons_by_node |->
                  Len(state_inclusion_reasons_by_node[n])],
               DOMAIN state_inclusion_reasons_by_node)
         = SumOver(state_inclusion_counts, StateOptions)

C2_Witness ==
  /\ Classified
  /\ \E o \in StateOptions : state_inclusion_counts[o] = 0
  /\ \E o \in StateOptions : state_inclusion_counts[o] = 2
  /\ \E n \in DOMAIN state_inclusion_reasons_by_node :
       Len(state_inclusion_reasons_by_node[n]) > 1

(***************************************************************************)
(* C4: when an input manifest cannot be located (the project location is   *)
(* not set, or a manifest file is missing), the run ends with a warning:   *)
(* nothing is loaded, classified or diffed, and no exception ends the run. *)
(***************************************************************************)
C4_MissingInputWarned ==
  (pc \in {"done", "crashed"}
     /\ (~dbt_project_path \/ ~exists["production"] \/ ~exists["branch"])) =>
    /\ failure = "none"
    /\ pc = "done"
    /\ warnings # {}
    /\ loaded = {}
    /\ state_inclusion_counts = Empty
    /\ displayed = <<>>

(***************************************************************************)
(* C5: every node present in exactly one manifest is reported without a    *)
(* structural diff: a selected node only in the branch manifest as new, a  *)
(* node only in the production manifest as deleted.                        *)
(***************************************************************************)
C5_OneSidedReported ==
  (pc = "done" /\ Compared) =>
    /\ \A i \in 1..Len(selected_nodes) :
         selected_nodes[i] \notin DOMAIN production_manifest =>
           \E j \in 1..Len(displayed) :
             displayed[j] = Shown(selected_nodes[i], "new", "none")
    /\ \A n \in DOMAIN production_manifest \ DOMAIN branch_manifest :
         \E j \in 1..Len(displayed) : displayed[j] = Shown(n, "deleted", "none")

(***************************************************************************)
(* C6: a failure to tabulate the diff of one selected node is reported for *)
(* that node and the run goes on: the run ends only when every selected    *)
(* node has been displayed, in order, the failed ones included.            *)
(***************************************************************************)
C6_FailureIsolated ==
  Compared =>
    /\ Len(displayed) <= Len(selected_nodes)
    /\ DisplayedIds = SubSeq(selected_nodes, 1, Len(displayed))
    /\ pc \in {"done", "crashed"} => Len(displayed) = Len(selected_nodes)

C6_Witness ==
  /\ pc = "done"
  /\ Len(displayed) = 2
  /\ displayed[1].table = "error"
  /\ displayed[2].kind = "diff"
  /\ displayed[2].table = "table"

(***************************************************************************)
(* C7: once all selectors have been evaluated, the reasons of a node are   *)
(* exactly the selectors that matched it, each once, in the order of the   *)
(* fixed selector list; a node has an entry iff some selector matched it.  *)
(***************************************************************************)
C7_ReasonsInOrder ==
  Classified =>
    /\ DOMAIN state_inclusion_reasons_by_node =
         {n \in included_nodes : MatchedFrom(n, 1) # <<>>}
    /\ \A n \in DOMAIN state_inclusion_reasons_by_node :
         state_inclusion_reasons_by_node[n] = MatchedFrom(n, 1)

C7_Witness ==
  /\ Classified
  /\ \E n \in DOMAIN state_inclusion_reasons_by_node :
       state_inclusion_reasons_by_node[n] =
         <<"modified", "modified.body", "modified.contract">>

(***************************************************************************)
(* C8: when the comparison runs, the skipped set is the union of the ids   *)
(* elided by the two loads, and the large-seed warning names that set and  *)
(* is issued iff the set is not empty.                                     *)
(***************************************************************************)
C8_ElidedSurfaced ==
  Compared =>
    /\ skipped_large_seeds = elided["production"] \cup elided["branch"]
    /\ skipped_large_seeds # {} <=> SeedWarning \in warnings
    /\ \A w \in warnings : w.msg = SeedWarning.msg => w = SeedWarning

C8_Witness ==
  /\ Compared
  /\ elided["production"] # {}
  /\ elided["branch"] = {}
  /\ "seed.b" \in DOMAIN branch_manifest
  /\ SeedWarning \in warnings

(***************************************************************************)
(* C9: no selected node is processed before all eight selectors have been  *)
(* evaluated, and whatever the selected method, every selected node has an *)
(* entry in the reasons index when its reasons are looked up.              *)
(***************************************************************************)
C9_ReasonsReady ==
  /\ failure # "KeyError"
  /\ (pc \in {"loop", "flatten"} \/ displayed # <<>>) =>
       /\ Classified
       /\ DOMAIN state_inclusion_counts = StateOptions
       /\ \A i \in 1..Len(selected_nodes) :
            selected_nodes[i] \in DOMAIN state_inclusion_reasons_by_node

C9_Witness ==
  /\ pc = "done"
  /\ \E i \in 1..Len(displayed) : displayed[i].kind = "diff"
  /\ \E i \in 1..Len(displayed) : displayed[i].kind = "new"

====
